---------------------------- MODULE Spec2Model ----------------------------
(***************************************************************************)
(* Model of ai_visualization.py: a Streamlit script.  Every user           *)
(* interaction re-runs main() from the top; one script run is one action.  *)
(*                                                                         *)
(* Text is a sequence of tokens.  "F" is a line of three backticks,        *)
(* "p" the word python, "n" a line break; every other token is the text    *)
(* of one line (prose, or one statement of generated code).                *)
(***************************************************************************)
EXTENDS Integers, Sequences, FiniteSets, TLC

VARIABLES
    gemini_api_key,   \* st.session_state.gemini_api_key after the last run
    uploaded_file,    \* the file-uploader widget: "none", "good", "bad"
    figs,             \* matplotlib's global figure registry (figure numbers)
    events,           \* what the last script run did, in order
    response,         \* the raw LLM response of the last run (<<>> if none)
    python_code,      \* the code extracted from it (<<>> if none)
    result_vars,      \* run_local_code's return: bindings, or None
    figs0,            \* the figure registry when the last run started
    clicked           \* what st.button returned in the last run

vars == << gemini_api_key, uploaded_file, figs, events, response,
           python_code, result_vars, figs0, clicked >>

-----------------------------------------------------------------------------
(* Bounds *)

MaxStmts == 3         \* statements in a generated program (request spec)
MaxSessionStmts == 2  \* statements in a generated program (session spec)
MaxRegistry == 2      \* figures left in the registry before a run starts
MaxRespLen == 6       \* tokens in an arbitrary response text
MaxFaultAt == 2       \* a renderer's 1st .. MaxFaultAt-th call may raise

-----------------------------------------------------------------------------
(* Small helpers *)

RECURSIVE SeqsUpTo(_, _)
SeqsUpTo(S, n) ==
    IF n = 0 THEN { <<>> }
    ELSE LET shorter == SeqsUpTo(S, n - 1)
         IN  shorter \cup { Append(s, x) : s \in shorter, x \in S }

Range(s) == { s[i] : i \in 1..Len(s) }

Min(S) == CHOOSE x \in S : \A y \in S : x <= y
Max(S) == CHOOSE x \in S : \A y \in S : x >= y

RECURSIVE Join(_)
\* lines joined by line breaks: "\n".join(lines)
Join(lines) ==
    IF lines = <<>> THEN <<>>
    ELSE IF Len(lines) = 1 THEN lines[1]
    ELSE lines[1] \o <<"n">> \o Join(Tail(lines))

RECURSIVE SplitLines(_)
\* the lines of a text: text.split("\n")
SplitLines(text) ==
    IF \A i \in 1..Len(text) : text[i] # "n" THEN << text >>
    ELSE LET k == Min({ i \in 1..Len(text) : text[i] = "n" })
         IN  << SubSeq(text, 1, k - 1) >>
                 \o SplitLines(SubSeq(text, k + 1, Len(text)))

-----------------------------------------------------------------------------
(* match_code_blocks: pattern = ```python\n(.*?)\n``` with DOTALL          *)

\* positions where the literal ```python\n starts
OpenAt(r, i) ==
    i + 2 <= Len(r) /\ r[i] = "F" /\ r[i + 1] = "p" /\ r[i + 2] = "n"

\* positions j where the literal \n``` starts, leaving the group r[i+3..j-1]
CloseAt(r, i, j) ==
    j >= i + 3 /\ j + 1 <= Len(r) /\ r[j] = "n" /\ r[j + 1] = "F"

\* the start positions at which the pattern matches
MatchStarts(r) ==
    { i \in 1..Len(r) : OpenAt(r, i) /\ \E j \in 1..Len(r) : CloseAt(r, i, j) }

HasMatch(r) == MatchStarts(r) # {}

\* group(1) of the leftmost match, the lazy group taking the nearest close
Group1(r) ==
    LET i == Min(MatchStarts(r))
        j == Min({ k \in 1..Len(r) : CloseAt(r, i, k) })
    IN  SubSeq(r, i + 3, j - 1)

match_code_blocks(llm_response) ==
    IF HasMatch(llm_response) THEN Group1(llm_response) ELSE <<>>


-----------------------------------------------------------------------------
(* Values, bindings and the generated code                                 *)

\* one entry of a dict: a name bound to a value of some kind
Binding(n, k) == [name |-> n, kind |-> k]

\* the dict literal handed to run_local_code, in insertion order
local_vars ==
    << Binding("pd", "module"), Binding("plt", "module"),
       Binding("sns", "module"), Binding("px", "module"),
       Binding("df", "DataFrame") >>

\* mutant: exec(code, globals(), local_vars)
ExecGlobalsOfModule == << "st", "genai", "pattern", "re", "io", "sys" >>

\* the globals dict handed to exec: {}
ExecGlobals == <<>>

NamesOf(vs) == [ i \in 1..Len(vs) |-> vs[i].name ]

\* d[n] = v keeps the position of an existing key and appends a new one
SetItem(vs, n, k) ==
    IF \E i \in 1..Len(vs) : vs[i].name = n
    THEN [ i \in 1..Len(vs) |->
             IF vs[i].name = n THEN Binding(n, k) ELSE vs[i] ]
    ELSE Append(vs, Binding(n, k))

\* hasattr(v, 'to_html'): pandas DataFrame and plotly Figure define it
HasToHtml(kind) == kind \in { "DataFrame", "PlotlyFigure" }

\* isinstance(val, (pd.DataFrame, pd.Series))
IsTabular(kind) == kind \in { "DataFrame", "Series" }

\* plt.figure() numbers a new figure one above the highest in the registry
NextFigNum(registry) ==
    IF registry = <<>> THEN 1 ELSE Max(Range(registry)) + 1

\* The statements generated code is made of, one per line:
\*   out    print(...)                     err    print(..., file=sys.stderr)
\*   fig    plt.figure()                   tbl    t = df.describe()
\*   ser    s = df.iloc[:, 0]              chart  c = px.scatter(df)
\*   dfset  df = df.dropna()               raise  raise ValueError(...)
\*   exit   raise SystemExit(...)
Statements ==
    { "out", "err", "fig", "tbl", "ser", "chart", "dfset", "raise", "exit" }

\* except Exception catches what derives from Exception, not SystemExit
CaughtByExceptException(exc) == exc = "Exception"

\* the effect of one statement on the interpreter state
ExecStmt(st, s) ==
    CASE s = "out"   -> [st EXCEPT !.buf = Append(@, "o")]
      [] s = "err"   -> [st EXCEPT !.buf = Append(@, "e")]
      [] s = "fig"   -> [st EXCEPT !.figs = Append(@, NextFigNum(@))]
      [] s = "tbl"   -> [st EXCEPT !.vars = SetItem(@, "t", "DataFrame")]
      [] s = "ser"   -> [st EXCEPT !.vars = SetItem(@, "s", "Series")]
      [] s = "chart" -> [st EXCEPT !.vars = SetItem(@, "c", "PlotlyFigure")]
      [] s = "dfset" -> [st EXCEPT !.vars = SetItem(@, "df", "DataFrame")]
      [] s = "raise" -> [st EXCEPT !.exc = "Exception"]
      [] s = "exit"  -> [st EXCEPT !.exc = "BaseException"]
      [] OTHER       -> st

RECURSIVE RunStmts(_, _)
\* statements run in order until one raises
RunStmts(st, stmts) ==
    IF stmts = <<>> \/ st.exc # "none" THEN st
    ELSE RunStmts(ExecStmt(st, Head(stmts)), Tail(stmts))

\* a line compiles if it is blank or one statement
LineCompiles(line) ==
    line = <<>> \/ (Len(line) = 1 /\ line[1] \in Statements)

Compiles(code) ==
    \A i \in 1..Len(SplitLines(code)) : LineCompiles(SplitLines(code)[i])

RECURSIVE Flatten(_)
Flatten(lines) ==
    IF lines = <<>> THEN <<>> ELSE Head(lines) \o Flatten(Tail(lines))

\* exec(code, {}, local_vars) under the redirected streams: a SyntaxError is
\* raised by compilation, before any statement has run
Exec(code, bindings, registry) ==
    LET st0 == [vars |-> bindings, buf |-> <<>>, figs |-> registry,
                exc |-> "none"]
    IN  IF ~Compiles(code) THEN [st0 EXCEPT !.exc = "Exception"]
        ELSE RunStmts(st0, Flatten(SplitLines(code)))

-----------------------------------------------------------------------------
(* Events of a script run                                                  *)

Ev(o, n, k, t, b) == [op |-> o, name |-> n, num |-> k, text |-> t, ok |-> b]
E0(o) == Ev(o, "", 0, <<>>, TRUE)

\* run_local_code's return value: a dict or None ("unset": never called)
RetNone == [tag |-> "None", vars |-> <<>>]
RetDict(vs) == [tag |-> "dict", vars |-> vs]
RetUnset == [tag |-> "unset", vars |-> <<>>]

\* if output: st.text_area(label, output)
ShowOutput(label, output) ==
    IF output # <<>> THEN << Ev(label, "", 0, output, TRUE) >> ELSE <<>>

\* run_local_code(code, local_vars): events shown, value returned, the
\* registry afterwards, and whether an exception left the function
run_local_code(code, bindings, registry) ==
    LET st == Exec(code, bindings, registry)
        start == << Ev("exec", "", 0, NamesOf(bindings), TRUE),
                    Ev("exec_globals", "", 0, ExecGlobals, TRUE) >>
    IN  IF st.exc = "none"
        THEN [events |-> start \o ShowOutput("code_output", st.buf),
              ret |-> RetDict(st.vars), figs |-> st.figs, uncaught |-> FALSE]
        ELSE IF CaughtByExceptException(st.exc)
        THEN [events |-> start \o << E0("error_exec") >>
                          \o ShowOutput("partial_output", st.buf),
              ret |-> RetNone, figs |-> st.figs, uncaught |-> FALSE]
        ELSE [events |-> start, ret |-> RetUnset, figs |-> st.figs,
              uncaught |-> TRUE]

-----------------------------------------------------------------------------
(* The three rendering passes.  A renderer is an external call that may    *)
(* raise: fault names the renderer and which of its calls (1st, 2nd, ...)  *)
(* raises in this run; op "none" means that no call raises.                *)

NoFault == [op |-> "none", at |-> 0]

Faults ==
    { NoFault } \cup
    { [op |-> o, at |-> k] :
        o \in { "pyplot", "plotly_chart", "dataframe" }, k \in 1..MaxFaultAt }

Raises(fault, o, k) == fault.op = o /\ fault.at = k

RECURSIVE PyplotLoop(_, _, _)
\* for fig_num in plt.get_fignums(): st.pyplot(plt.figure(fig_num))
\* k calls were made before; the loop ends at the first call that raises
PyplotLoop(nums, k, fault) ==
    IF nums = <<>> THEN [events |-> <<>>, raised |-> FALSE]
    ELSE IF Raises(fault, "pyplot", k + 1)
    THEN [events |-> << Ev("pyplot", "", Head(nums), <<>>, FALSE) >>,
          raised |-> TRUE]
    ELSE LET rest == PyplotLoop(Tail(nums), k + 1, fault)
         IN  [events |-> << Ev("pyplot", "", Head(nums), <<>>, TRUE) >>
                           \o rest.events,
              raised |-> rest.raised]

\* the try block around the static-figure pass: plt.close('all') is its last
\* statement and except Exception: pass swallows whatever was raised before
StaticPass(registry, fault) ==
    IF registry = <<>> THEN [events |-> <<>>, figs |-> registry]
    ELSE LET loop == PyplotLoop(registry, 0, fault)
         IN  IF loop.raised
             THEN [events |-> loop.events, figs |-> registry]
             ELSE [events |-> loop.events \o << E0("close_all") >>,
                   figs |-> <<>>]

RECURSIVE InteractivePass(_, _, _)
\* for v in result_vars.values(): a raising call is skipped with continue
InteractivePass(vs, k, fault) ==
    IF vs = <<>> THEN <<>>
    ELSE IF HasToHtml(Head(vs).kind)
    THEN << Ev("plotly_chart", Head(vs).name, 0, <<>>,
               ~Raises(fault, "plotly_chart", k + 1)) >>
             \o InteractivePass(Tail(vs), k + 1, fault)
    ELSE InteractivePass(Tail(vs), k, fault)

\* the condition of the tabular pass
ShownAsTable(b) == IsTabular(b.kind) /\ b.name # "df"

RECURSIVE TabularPass(_, _, _)
\* for name, val in result_vars.items(): nothing catches a raising call
TabularPass(vs, k, fault) ==
    IF vs = <<>> THEN [events |-> <<>>, raised |-> FALSE]
    ELSE IF ShownAsTable(Head(vs))
    THEN LET label == Ev("label", Head(vs).name, 0, <<>>, TRUE)
         IN  IF Raises(fault, "dataframe", k + 1)
             THEN [events |-> << label,
                       Ev("dataframe", Head(vs).name, 0, <<>>, FALSE) >>,
                   raised |-> TRUE]
             ELSE LET rest == TabularPass(Tail(vs), k + 1, fault)
                  IN  [events |-> << label,
                            Ev("dataframe", Head(vs).name, 0, <<>>, TRUE) >>
                            \o rest.events,
                       raised |-> rest.raised]
    ELSE TabularPass(Tail(vs), k, fault)

-----------------------------------------------------------------------------
(* main(): one script run                                                  *)

Out(ev, registry, resp, code, ret) ==
    [events |-> ev, figs |-> registry, response |-> resp,
     python_code |-> code, result_vars |-> ret]

\* mutant: if st.session_state.gemini_api_key is None
CredentialIsNone(key) == FALSE

\* if not st.session_state.gemini_api_key
CredentialMissing(key) == key = ""

\* mutant: the except block of read_csv does not return
ParseErrorIgnored(file) == FALSE

\* pd.read_csv(uploaded_file) raises
ParseFails(file) == file = "bad"

\* mutant: if python_code is None
NoCodeIsNone(code) == FALSE

\* if not python_code
NoCode(code) == code = <<>>

\* lines 145-166: the passes after a successful execution
Render(ev, registry, resp, code, ret, fault) ==
    LET static == StaticPass(registry, fault)
        charts == InteractivePass(ret.vars, 0, fault)
        tables == TabularPass(ret.vars, 0, fault)
        shown  == ev \o static.events \o charts \o tables.events
    IN  IF tables.raised
        THEN Out(shown \o << Ev("uncaught", "Exception", 0, <<>>, FALSE) >>,
                 static.figs, resp, code, ret)
        ELSE Out(shown \o << E0("success") >>, static.figs, resp, code, ret)

\* lines 116-143: the body of if st.button(...) up to the execution
Analyze(ev, registry, resp, fault) ==
    LET code == match_code_blocks(resp)
        ev1  == ev \o << E0("generate_content"), E0("write_response") >>
    IN  IF NoCode(code)
        THEN Out(ev1 \o << E0("warning_nocode") >>, registry, resp, code,
                 RetUnset)
        ELSE LET run == run_local_code(code, local_vars, registry)
                 ev2 == ev1 \o << E0("code") >> \o run.events
             IN  IF run.uncaught
                 THEN Out(ev2 \o << Ev("uncaught", "BaseException", 0, <<>>,
                                       FALSE) >>,
                          run.figs, resp, code, run.ret)
                 ELSE IF run.ret.tag = "None"
                 THEN Out(ev2 \o << E0("error_failed") >>, run.figs, resp,
                          code, run.ret)
                 ELSE Render(ev2, run.figs, resp, code, run.ret, fault)

\* lines 73-115
Main(key, file, pressed, resp, fault, registry) ==
    IF CredentialMissing(key)
    THEN Out(<< E0("warning_key"), E0("stop") >>, registry, <<>>, <<>>,
             RetUnset)
    ELSE IF file = "none"
    THEN Out(<< E0("configure"), E0("info_upload") >>, registry, <<>>, <<>>,
             RetUnset)
    ELSE IF ParseFails(file)
    THEN Out(<< E0("configure"), E0("read_csv"), E0("error_csv") >>,
             registry, <<>>, <<>>, RetUnset)
    ELSE LET ev == << E0("configure"), E0("read_csv"), E0("preview"),
                      E0("button") >>
         IN  IF pressed THEN Analyze(ev, registry, resp, fault)
             ELSE Out(ev, registry, <<>>, <<>>, RetUnset)

-----------------------------------------------------------------------------
(* Inputs                                                                  *)

Keys == { "", "k1", "k2" }
Files == { "none", "good", "bad" }

\* the text of a program: one statement per line
CodeText(prog) == Join([ i \in 1..Len(prog) |-> << prog[i] >> ])

\* a response whose only fenced block holds the given code
Fenced(code) ==
    << "x", "n", "F", "p", "n" >> \o code \o << "n", "F", "n", "x" >>

\* a response whose first python block has no interior line
ZeroLineFirst ==
    << "F", "p", "n", "F", "n", "F", "p", "n", "out", "n", "F" >>

ResponsesOver(progs) ==
    { << "x" >>, ZeroLineFirst } \cup { Fenced(CodeText(q)) : q \in progs }

Responses == ResponsesOver(SeqsUpTo(Statements, MaxStmts))

SessionStatements == { "fig", "out", "raise", "tbl" }
SessionResponses ==
    ResponsesOver(SeqsUpTo(SessionStatements, MaxSessionStmts))
SessionFaults == { NoFault, [op |-> "pyplot", at |-> 1] }

\* the registry holding figures 1..n
RegistryOf(n) == [ i \in 1..n |-> i ]

-----------------------------------------------------------------------------
(* The session: every widget interaction re-runs the script               *)

\* the state a script run leaves behind
Ran(key, file, pressed, out) ==
    /\ gemini_api_key' = key
    /\ uploaded_file' = file
    /\ figs0' = figs
    /\ figs' = out.figs
    /\ events' = out.events
    /\ response' = out.response
    /\ python_code' = out.python_code
    /\ result_vars' = out.result_vars
    /\ clicked' = pressed

UploaderShown == \E i \in 1..Len(events) : events[i].op = "configure"

ButtonShown == \E i \in 1..Len(events) : events[i].op = "button"

\* first page load: session_state.gemini_api_key = '' and the run stops
Init ==
    /\ gemini_api_key = ""
    /\ uploaded_file = "none"
    /\ figs = <<>>
    /\ figs0 = <<>>
    /\ events = Main("", "none", FALSE, <<>>, NoFault, <<>>).events
    /\ response = <<>>
    /\ python_code = <<>>
    /\ result_vars = RetUnset
    /\ clicked = FALSE

\* the user commits a changed text in the sidebar's key field
EnterKey ==
    \E k \in Keys :
        /\ k # gemini_api_key
        /\ Ran(k, uploaded_file, FALSE,
               Main(k, uploaded_file, FALSE, <<>>, NoFault, figs))

\* the user uploads, replaces or removes the file in the uploader, which is
\* on the page once a run has passed the credential check
ChooseFile ==
    /\ UploaderShown
    /\ \E f \in Files :
           Ran(gemini_api_key, f, FALSE,
               Main(gemini_api_key, f, FALSE, <<>>, NoFault, figs))

\* the user presses Analyze; widget changes made while the previous run was
\* still in flight arrive in the same rerun request
ClickAnalyze ==
    /\ ButtonShown
    /\ Len(figs) < MaxRegistry
    /\ \E k \in Keys, f \in Files, resp \in SessionResponses,
          fault \in SessionFaults :
           Ran(k, f, TRUE, Main(k, f, TRUE, resp, fault, figs))

Next == EnterKey \/ ChooseFile \/ ClickAnalyze

Spec == Init /\ [][Next]_vars

-----------------------------------------------------------------------------
(* One request: the page shows the button and the user presses it once     *)

RequestInit ==
    /\ gemini_api_key = "k1"
    /\ uploaded_file = "good"
    /\ figs \in { RegistryOf(n) : n \in 0..(MaxRegistry - 1) }
    /\ figs0 = figs
    /\ events = Main("k1", "good", FALSE, <<>>, NoFault, figs).events
    /\ response = <<>>
    /\ python_code = <<>>
    /\ result_vars = RetUnset
    /\ clicked = FALSE

\* the press of Analyze
Request ==
    /\ response = <<>>
    /\ \E resp \in Responses, fault \in Faults :
           Ran(gemini_api_key, uploaded_file, TRUE,
               Main(gemini_api_key, uploaded_file, TRUE, resp, fault, figs))

SpecRequest == RequestInit /\ [][Request]_vars

-----------------------------------------------------------------------------
(* The extractor alone, on arbitrary response texts                        *)

ResponseTokens == { "F", "p", "n", "x" }

ExtractInit ==
    /\ gemini_api_key = "k1"
    /\ uploaded_file = "good"
    /\ figs = <<>>
    /\ figs0 = <<>>
    /\ events = <<>>
    /\ response \in SeqsUpTo(ResponseTokens, MaxRespLen)
    /\ python_code = <<>>
    /\ result_vars = RetUnset
    /\ clicked = FALSE

Extract ==
    /\ events = <<>>
    /\ events' = << E0("match_code_blocks") >>
    /\ python_code' = match_code_blocks(response)
    /\ UNCHANGED << gemini_api_key, uploaded_file, figs, figs0, response,
                    result_vars, clicked >>

SpecExtract == ExtractInit /\ [][Extract]_vars

-----------------------------------------------------------------------------
(* Properties                                                              *)

HasOp(o) == \E i \in 1..Len(events) : events[i].op = o

LastOp == IF events = <<>> THEN "" ELSE events[Len(events)].op

RenderOps == { "pyplot", "close_all", "plotly_chart", "label", "dataframe" }

NoRendering == \A i \in 1..Len(events) : events[i].op \notin RenderOps

IsPartialOutput(e) == e.op = "partial_output"
IsPyplot(e) == e.op = "pyplot"
IsPlotlyChart(e) == e.op = "plotly_chart"
IsDataframe(e) == e.op = "dataframe"
IsFigStmt(x) == x = "fig"
BoundToHtml(b) == HasToHtml(b.kind)

\* the statements of a code text that compiles
StmtsOf(code) == Flatten(SplitLines(code))

\* the code raises: at compilation, or at a raise / exit statement
RaisesError(code) ==
    \/ ~Compiles(code)
    \/ \E i \in 1..Len(StmtsOf(code)) : StmtsOf(code)[i] \in { "raise", "exit" }

RECURSIVE WrittenBefore(_)
\* what the statements write to either stream before the first error
WrittenBefore(stmts) ==
    IF stmts = <<>> \/ Head(stmts) \in { "raise", "exit" } THEN <<>>
    ELSE (IF Head(stmts) = "out" THEN << "o" >>
          ELSE IF Head(stmts) = "err" THEN << "e" >> ELSE <<>>)
         \o WrittenBefore(Tail(stmts))

\* the text of the partial-output area, empty if it is not shown
PartialShown ==
    LET shown == SelectSeq(events, IsPartialOutput)
    IN  IF shown = <<>> THEN <<>> ELSE shown[1].text

\* C1: every error raised by the executed code is caught in run_local_code:
\* it returns None, the run ends with "Execution failed", nothing is rendered
\* and no success message is shown.
C1_EveryErrorContained ==
    (HasOp("exec") /\ RaisesError(python_code)) =>
        /\ result_vars = RetNone
        /\ LastOp = "error_failed"
        /\ ~HasOp("uncaught")
        /\ NoRendering
        /\ ~HasOp("success")

\* C2: a request whose response holds no recognizable python block extracts
\* the empty string, warns, never executes or renders, and leaves the page
\* ready for a new request.
C2_NoBlockNoExecution ==
    (HasOp("generate_content") /\ ~HasMatch(response)) =>
        /\ python_code = <<>>
        /\ LastOp = "warning_nocode"
        /\ ~HasOp("exec")
        /\ result_vars = RetUnset
        /\ NoRendering
        /\ ~HasOp("uncaught")
        /\ ButtonShown

C2_Witness ==
    /\ clicked
    /\ HasOp("generate_content")
    /\ ~HasMatch(response)
    /\ HasOp("warning_nocode")

\* C3: a run with an empty credential stops after the warning: no LLM call,
\* no file handling, no execution, no rendering; so an LLM call occurs only
\* in a run whose credential is non-empty.
C3_NoCredentialNoLLM ==
    /\ gemini_api_key = "" =>
           events = << E0("warning_key"), E0("stop") >>
    /\ HasOp("generate_content") => gemini_api_key # ""

C3_Witness ==
    /\ gemini_api_key = ""
    /\ clicked
    /\ uploaded_file = "good"
    /\ HasOp("stop")

\* C4: a run in which parsing the uploaded file fails reports the failure and
\* ends there: no LLM call, no extraction, no execution, no rendering.
C4_ParseFailureHalts ==
    (HasOp("read_csv") /\ uploaded_file = "bad") =>
        /\ LastOp = "error_csv"
        /\ ~HasOp("generate_content")
        /\ ~HasOp("code")
        /\ ~HasOp("exec")
        /\ NoRendering
        /\ response = <<>>
        /\ python_code = <<>>

C4_Witness ==
    /\ clicked
    /\ gemini_api_key # ""
    /\ uploaded_file = "bad"
    /\ HasOp("error_csv")

\* A well-formed first python block, read line by line: an opening line
\* ```python that is the first fence of the text, interior lines that do not
\* begin with a fence, and a closing line ```.
FenceLine(l) == l # <<>> /\ l[1] = "F"

OpenLines(ls) == { i \in 1..Len(ls) : ls[i] = << "F", "p" >> }

FencesAfter(ls, o) == { c \in (o + 1)..Len(ls) : FenceLine(ls[c]) }

WellFormedFirst(r) ==
    LET ls == SplitLines(r)
    IN  /\ OpenLines(ls) # {}
        /\ \A i \in 1..(Min(OpenLines(ls)) - 1) : ~FenceLine(ls[i])
        /\ FencesAfter(ls, Min(OpenLines(ls))) # {}
        /\ ls[Min(FencesAfter(ls, Min(OpenLines(ls))))] = << "F" >>

FirstInterior(r) ==
    LET ls == SplitLines(r)
        o  == Min(OpenLines(ls))
        c  == Min(FencesAfter(ls, o))
    IN  Join(SubSeq(ls, o + 1, c - 1))

\* C5: for a response with a well-formed python block, the extractor returns
\* exactly the interior of the first block, without marker lines, however
\* many lines the interior has (zero included).
C5_FirstInteriorExactly ==
    (events # <<>> /\ WellFormedFirst(response)) =>
        /\ python_code = FirstInterior(response)
        /\ \A i \in 1..Len(SplitLines(python_code)) :
               ~FenceLine(SplitLines(python_code)[i])

\* C6: when the executed code writes and then raises, the partial output
\* shown is exactly what was written to both streams before the error, in
\* write order.
C6_PartialOutputExact ==
    (HasOp("exec") /\ RaisesError(python_code)) =>
        PartialShown =
            (IF Compiles(python_code)
             THEN WrittenBefore(StmtsOf(python_code)) ELSE <<>>)

\* names of main's and the module's scope that are not handed to the code
HiddenNames ==
    { "st", "genai", "pattern", "re", "os", "io", "sys", "contextlib",
      "main", "run_local_code", "match_code_blocks", "chat_with_llm",
      "uploaded_file", "query", "python_code", "llm_response",
      "dataset_name", "local_vars", "result_vars" }

\* C7 as stated: the bindings at the start of execution are exactly the
\* tabular handle, two plotting handles (statistical, interactive) and df.
C7_TwoPlottingHandles ==
    \A i \in 1..Len(events) :
        events[i].op = "exec" =>
            Range(events[i].text) = { "pd", "sns", "px", "df" }

\* C7 amended: the bindings at the start of execution are exactly pd, the
\* three plotting handles plt, sns and px, and df, and neither they nor the
\* globals of the execution hold a name of main's or the module's scope.
C7_BindingsAtExecution ==
    \A i \in 1..Len(events) :
        /\ events[i].op = "exec" =>
               /\ events[i].text = << "pd", "plt", "sns", "px", "df" >>
               /\ Range(events[i].text) \cap HiddenNames = {}
        /\ events[i].op = "exec_globals" =>
               Range(events[i].text) \cap HiddenNames = {}

C7_Witness ==
    /\ clicked
    /\ HasOp("exec")
    /\ HasOp("exec_globals")
    /\ python_code # <<>>

\* C8: in a successful request no rendering pass hands the entry named df to
\* a renderer, and every other table or series is shown, labelled by name.
C8_DatasetNeverRendered ==
    HasOp("success") =>
        /\ \A i \in 1..Len(events) :
               events[i].op \in { "plotly_chart", "label", "dataframe" } =>
                   events[i].name # "df"
        /\ \A j \in 1..Len(result_vars.vars) :
               ShownAsTable(result_vars.vars[j]) =>
                   \E i \in 1..(Len(events) - 1) :
                       /\ events[i].op = "label"
                       /\ events[i].name = result_vars.vars[j].name
                       /\ events[i + 1].op = "dataframe"
                       /\ events[i + 1].name = result_vars.vars[j].name

\* figures the request's own code created
OwnFigures == Len(SelectSeq(StmtsOf(python_code), IsFigStmt))

NoRenderFailure == \A i \in 1..Len(events) : events[i].ok

\* C9: the figure registry is empty when a request starts, so a request
\* whose renderers all succeed renders exactly the figures its own code
\* created, each once.
C9_RegistryEmptyAtStart ==
    (clicked /\ HasOp("generate_content")) =>
        /\ figs0 = <<>>
        /\ (HasOp("success") /\ NoRenderFailure) =>
               Len(SelectSeq(events, IsPyplot)) = OwnFigures

Pass(e) ==
    CASE e.op \in { "pyplot", "close_all" } -> 1
      [] e.op = "plotly_chart" -> 2
      [] e.op \in { "label", "dataframe" } -> 3
      [] OTHER -> 0

NumsOf(es) == [ i \in 1..Len(es) |-> es[i].num ]
EventNames(es) == [ i \in 1..Len(es) |-> es[i].name ]

\* C10: after a successful execution the static figures are rendered first,
\* then the interactive charts, then the tables, each pass in registry /
\* bindings order, and a call that fails keeps no other item and no later
\* pass from being rendered.
C10_ThreePassesComplete ==
    result_vars.tag = "dict" =>
        /\ \A i, j \in 1..Len(events) :
               (i < j /\ Pass(events[i]) > 0 /\ Pass(events[j]) > 0) =>
                   Pass(events[i]) <= Pass(events[j])
        /\ NumsOf(SelectSeq(events, IsPyplot))
               = Exec(python_code, local_vars, figs0).figs
        /\ EventNames(SelectSeq(events, IsPlotlyChart))
               = NamesOf(SelectSeq(result_vars.vars, BoundToHtml))
        /\ EventNames(SelectSeq(events, IsDataframe))
               = NamesOf(SelectSeq(result_vars.vars, ShownAsTable))

=============================================================================
